---------------------------- MODULE Spec2Model ----------------------------
(***************************************************************************)
(* Model of RingApi (src/api/api.ts): the directory build                  *)
(* (fetchAndBuildLocations / fetchRingDevices) and the two polling         *)
(* pipelines set up by listenForCameraUpdates: camera status and dings.    *)
(*                                                                         *)
(* Time is discrete.  One Tick is 250 ms, so the 500 ms of throttleTime    *)
(* is ThrottleTicks = 2 ticks and cameraStatusPollingSeconds is counted    *)
(* in ticks (1 = 0.25 s, 3 = 0.75 s).  A timer that has run down to 0 has  *)
(* expired but its callback has not run yet: other events of the same      *)
(* tick may come before or after it, and time cannot advance until it has  *)
(* run.                                                                    *)
(***************************************************************************)
EXTENDS Integers, Sequences, FiniteSets

VARIABLES
    pc,              \* where the program is: "start" .. "running", "exited", "rejected"
    options,         \* RingAlarmOptions given to the constructor
    restClient,      \* the fields of RingRestClient the code reads: using2fa, refreshToken
    rawLocations,    \* result of fetchRawLocations
    devices,         \* result of fetchRingDevices inside fetchAndBuildLocations
    cameras,         \* the RingCamera objects, in construction order
    locations,       \* the Location objects fetchAndBuildLocations resolves with
    listening,       \* TRUE once listenForCameraUpdates has subscribed its pipeline
    camerasById,     \* the registry built by cameras.reduce
    throttleInner,   \* timer of throttleTime(500) on camerasRequestUpdate$ (-1: none)
    throttleOuter,   \* timer of throttleTime(500) on the merged stream (-1: none)
    throttleOrder,   \* which of the two throttle timers was scheduled first
    debounce,        \* timer of debounceTime on onUpdateReceived (-1: none)
    fetches,         \* outstanding fetchRingDevices calls of switchMap, oldest first;
                     \* TRUE: switchMap is still subscribed to the call's result
    event,           \* what the last step did
    sinceStart,      \* ticks since the last snapshot fetch was started (capped)
    sinceInner,      \* ticks since a manual trigger last passed the inner throttle (capped)
    sinceDone,       \* ticks since the subscriber last ran, -1 before its first run (capped)
    uptime,          \* ticks since listenForCameraUpdates ran (capped)
    gap,             \* ticks between the last two snapshot fetch starts, -1 before the second
    manualSeen,      \* TRUE once any camera has emitted onRequestUpdate
    overlap,         \* TRUE iff the last step started a fetch while the fetch of the
                     \* cycle before had not yet reached the subscriber
    delivered,       \* the cameraData the subscriber received in the last step, if it ran
    dingDebounce,    \* timer of debounceTime on onPollForActiveDings (-1: none)
    dingFetches,     \* outstanding fetchActiveDings calls of switchMap, oldest first;
                     \* TRUE: switchMap is still subscribed to the call's result
    dingEvent,       \* what the last step did in the dings pipeline
    dingSink,        \* the processActiveDing calls of the last step: <<camera, ding>>
    sinceDingDone    \* ticks since the dings subscriber last ran, -1 before (capped)

buildVars == <<pc, options, restClient, rawLocations, devices, cameras, locations>>
pollVars  == <<listening, camerasById, throttleInner, throttleOuter, throttleOrder,
               debounce, fetches>>
obsVars   == <<event, sinceStart, sinceInner, sinceDone, uptime, gap, manualSeen,
               overlap, delivered>>
dingVars  == <<dingDebounce, dingFetches, dingEvent, dingSink, sinceDingDone>>
vars      == <<buildVars, pollVars, obsVars, dingVars>>

---------------------------------------------------------------------------
(* Bounds and constants *)

\* throttleTime(500) in ticks of 250 ms
ThrottleTicks == 2

\* values of cameraStatusPollingSeconds, in ticks; 0 stands for 0 or absent
StatusIntervals == {0, 1, 3}

\* values of cameraDingsPollingSeconds, in ticks; 0 stands for 0 or absent
DingIntervals == {0, 2}

\* camera ids the snapshot lists use
Ids == {1, 2}

\* largest number of camera records in one snapshot
MaxCameras == 2

\* largest number of records in one polled snapshot
MaxRecords == 2

\* largest revision of a polled record (0 is the revision seen by the build)
MaxRev == 1

\* largest number of fetches outstanding at once
MaxOutstanding == 2

LocationIds == {"L1", "L2"}

\* the observers of elapsed time stop counting here
SinceCap == ThrottleTicks + 1

IntervalCap == CHOOSE m \in StatusIntervals : \A n \in StatusIntervals : n <= m

DingCap == CHOOSE m \in DingIntervals : \A n \in DingIntervals : n <= m

\* all sequences over S of length at most n
RECURSIVE SeqsUpTo(_, _)
SeqsUpTo(S, n) ==
    IF n = 0 THEN {<<>>}
    ELSE LET shorter == SeqsUpTo(S, n - 1)
         IN  shorter \cup {Append(s, x) : s \in {t \in shorter : Len(t) = n - 1}, x \in S}

\* Array.prototype.includes: some element of list is x
Includes(list, x) == \E i \in DOMAIN list : list[i] = x

\* the elements of s at the positions in keep, in order (Array.prototype.filter)
RECURSIVE SelectIdx(_, _)
SelectIdx(s, keep) ==
    IF s = <<>> THEN <<>>
    ELSE LET rest == SelectIdx(Tail(s), {k - 1 : k \in keep \ {1}})
         IN  IF 1 \in keep THEN <<Head(s)>> \o rest ELSE rest

---------------------------------------------------------------------------
(* The directory build: fetchRingDevices and fetchAndBuildLocations *)

\* A camera record of a snapshot.  ref is the identity of the parsed object
\* (Array.prototype.includes compares objects by identity); records of one
\* response carry the refs 1, 2, ... in the order doorbots, stickup_cams,
\* authorized_doorbots.  rev stands for the record's status fields.
CameraData(ref, id, location_id, rev) ==
    [ref |-> ref, id |-> id, location_id |-> location_id, rev |-> rev]

\* the id / location_id contents a snapshot record can have
CameraContents == [id : Ids, location_id : LocationIds]

\* gives the records of list the refs base+1, base+2, ...
Parsed(list, base) ==
    [i \in DOMAIN list |-> CameraData(base + i, list[i].id, list[i].location_id, 0)]

\* the base_stations and beams_bridges lists: no hub, or one hub at some location
HubLists == {<<>>} \cup {<<[location_id |-> l]>> : l \in LocationIds}

\* the user_locations lists: no location, one, or two (also the same id twice)
RawLocationLists ==
    {<<>>} \cup {<<l>> : l \in LocationIds} \cup {<<l, m>> : l, m \in LocationIds}

\* a parsed response of clientApi('ring_devices')
Response(d, sc, a, bs, bb) ==
    [doorbots            |-> Parsed(d, 0),
     stickup_cams        |-> Parsed(sc, Len(d)),
     authorized_doorbots |-> Parsed(a, Len(d) + Len(sc)),
     base_stations       |-> bs,
     beams_bridges       |-> bb]

\* the responses of clientApi('ring_devices') the build can see
Snapshots ==
    { Response(SubSeq(all[1], 1, all[2]), SubSeq(all[1], all[2] + 1, all[3]),
               SubSeq(all[1], all[3] + 1, Len(all[1])), bs, bb) :
        all \in { t \in SeqsUpTo(CameraContents, MaxCameras)
                          \X (0 .. MaxCameras) \X (0 .. MaxCameras) :
                    t[2] <= t[3] /\ t[3] <= Len(t[1]) },
        bs \in HubLists,
        bb \in HubLists }

\* the states of the REST client the code reads (refreshToken: a token is set)
RestClientStates == [using2fa : BOOLEAN, refreshToken : BOOLEAN]

\* mutant of ExitFor2fa: exit when no refresh token is set
ExitWithoutToken(client) == client.using2fa /\ ~client.refreshToken

\* the condition under which fetchRingDevices calls process.exit(1)
ExitFor2fa(client) == client.using2fa /\ client.refreshToken

\* mutant of fetchRingDevices: an authorized doorbot whose id is among the
\* doorbots is left out of allCameras
fetchRingDevicesDeduplicated(response) ==
    LET a == response.authorized_doorbots
        fresh == {k \in DOMAIN a :
                    \A j \in DOMAIN response.doorbots : response.doorbots[j].id # a[k].id}
    IN  [doorbots           |-> response.doorbots,
         authorizedDoorbots |-> a,
         stickupCams        |-> response.stickup_cams,
         allCameras         |-> response.doorbots \o response.stickup_cams
                                   \o SelectIdx(a, fresh),
         baseStations       |-> response.base_stations,
         beamBridges        |-> response.beams_bridges]

\* the object fetchRingDevices returns for a response
fetchRingDevices(response) ==
    [doorbots           |-> response.doorbots,
     authorizedDoorbots |-> response.authorized_doorbots,
     stickupCams        |-> response.stickup_cams,
     allCameras         |-> response.doorbots \o response.stickup_cams
                               \o response.authorized_doorbots,
     baseStations       |-> response.base_stations,
     beamBridges        |-> response.beams_bridges]

\* new RingCamera(data, isDoorbot, restClient)
RingCamera(data, isDoorbot) ==
    [id |-> data.id, isDoorbot |-> isDoorbot, data |-> data]

\* cameras = allCameras.map(data => new RingCamera(...))
BuildCameras(d) ==
    [k \in DOMAIN d.allCameras |->
        RingCamera(d.allCameras[k],
                   Includes(d.doorbots, d.allCameras[k])
                     \/ Includes(d.authorizedDoorbots, d.allCameras[k]))]

\* mutant of locationIdsWithHubs: the bridges are left out
locationIdsWithBaseStations(d) ==
    [k \in DOMAIN d.baseStations |-> d.baseStations[k].location_id]

\* locationIdsWithHubs = [...baseStations, ...beamBridges].map(x => x.location_id)
locationIdsWithHubs(d) ==
    LET hubs == d.baseStations \o d.beamBridges
    IN  [k \in DOMAIN hubs |-> hubs[k].location_id]

\* mutant of KeepLocation: no filter
KeepEveryLocation(opts, location_id) == TRUE

\* the filter on rawLocations: locationIds is absent / not an array, or includes the id
KeepLocation(opts, location_id) ==
    \/ ~opts.locationIds.isArray
    \/ location_id \in opts.locationIds.ids

\* new Location(location, cameras.filter(...), locationIdsWithHubs.includes(...), ...);
\* cameras holds the positions (identities) of the Location's RingCamera objects
Location(location_id, cams, d) ==
    [location_id |-> location_id,
     cameras     |-> SelectIdx([k \in DOMAIN cams |-> k],
                               {k \in DOMAIN cams : cams[k].data.location_id = location_id}),
     hasHubs     |-> Includes(locationIdsWithHubs(d), location_id)]

\* locations = rawLocations.filter(...).map(...)
BuildLocations(opts, raw, cams, d) ==
    LET kept == SelectIdx(raw, {k \in DOMAIN raw : KeepLocation(opts, raw[k])})
    IN  [k \in DOMAIN kept |-> Location(kept[k], cams, d)]

---------------------------------------------------------------------------
(* listenForCameraUpdates: the status polling pipeline *)

\* camerasById = cameras.reduce(...): a later camera overwrites an earlier one
\* with the same id; the value is the position (identity) of the RingCamera
camerasByIdOf(cams) ==
    [id \in {cams[k].id : k \in DOMAIN cams} |->
        CHOOSE k \in DOMAIN cams :
            /\ cams[k].id = id
            /\ \A m \in DOMAIN cams : cams[m].id = id => m <= k]

\* mutant of ThrottleOpen: a throttle that lets every value pass
ThrottleOpenAlways(timer) == TRUE

\* throttleTime(500), leading edge only: a value passes iff no timer is running
ThrottleOpen(timer) == timer = -1

\* mutant of ThrottleTimer: a window one tick short
ThrottleTimerShort == ThrottleTicks - 1

\* mutant of ThrottleTimer: a window longer than one second
ThrottleTimerLong == 2 * ThrottleTicks + 1

\* throttleTime(500) schedules its timer when it lets a value pass
ThrottleTimer == ThrottleTicks

\* mutant of onPollForStatusUpdate: debounceTime also when the interval is 0
onPollForStatusUpdateAlways(opts, timer) == opts.cameraStatusPollingSeconds

\* mutant of onPollForStatusUpdate: a timer that is running is left running
\* (the delay is not restarted)
onPollForStatusUpdateNoRestart(opts, timer) ==
    IF opts.cameraStatusPollingSeconds # 0
    THEN IF timer # -1 THEN timer ELSE opts.cameraStatusPollingSeconds
    ELSE -1

\* onUpdateReceived.next() seen through onPollForStatusUpdate: debounceTime
\* drops the timer it has running and starts one with the full delay; EMPTY
\* never has a timer
onPollForStatusUpdate(opts, timer) ==
    IF opts.cameraStatusPollingSeconds # 0
    THEN opts.cameraStatusPollingSeconds
    ELSE -1

\* mutant of KickOff: the kick makes the periodic trigger fire at once
KickOffImmediate(opts) ==
    IF opts.cameraStatusPollingSeconds # 0 THEN 0 ELSE -1

\* if (cameraStatusPollingSeconds) { onUpdateReceived.next() } // kick off polling
KickOff(opts) ==
    IF opts.cameraStatusPollingSeconds # 0 THEN onPollForStatusUpdate(opts, -1) ELSE -1

\* mutant of SwitchMap: mergeMap, which stays subscribed to the earlier calls
MergeMap(fs) == Append(fs, TRUE)

\* switchMap on a new value: unsubscribe from the previous call, subscribe to a new one
SwitchMap(fs) == [i \in DOMAIN fs |-> FALSE] \o <<TRUE>>

\* the sequence s without its i-th element
RemoveAt(s, i) == SubSeq(s, 1, i - 1) \o SubSeq(s, i + 1, Len(s))

\* camera.updateData(data)
updateData(camera, data) == [camera EXCEPT !.data = data]

\* mutant of Lookup: a record with an unknown id goes to the first camera
LookupWithDefault(byId, data) == IF data.id \in DOMAIN byId THEN byId[data.id] ELSE 1

\* the camera the subscriber looks up for one record, 0 when camerasById has none
Lookup(byId, data) == IF data.id \in DOMAIN byId THEN byId[data.id] ELSE 0

\* cameraData.forEach(data => { const camera = camerasById[data.id]; if (camera) ... })
RECURSIVE Dispatch(_, _, _)
Dispatch(cams, byId, cameraData) ==
    IF cameraData = <<>> THEN cams
    ELSE LET data == Head(cameraData)
             k    == Lookup(byId, data)
             next == IF k # 0
                     THEN [cams EXCEPT ![k] = updateData(cams[k], data)]
                     ELSE cams
         IN  Dispatch(next, byId, Tail(cameraData))

\* the allCameras lists a polled snapshot can hold
PolledResults ==
    SeqsUpTo({CameraData(0, id, "L1", rev) : id \in Ids, rev \in 1 .. MaxRev}, MaxRecords)

\* mutant of NoCameras: listenForCameraUpdates without its early return
NoCamerasUnchecked(cams) == FALSE

\* if (!cameras.length) { return }
NoCameras(cams) == Len(cams) = 0

\* mutant of onPollForActiveDings: a debounceTime without delay
onPollForActiveDingsAtOnce(opts, timer) == 0

\* onPollForActiveDings.next() seen through debounceTime(cameraDingsPollingSeconds
\* * 1000): the timer it has running is dropped, one with the full delay starts
onPollForActiveDings(opts, timer) == opts.cameraDingsPollingSeconds

\* if (cameraDingsPollingSeconds) { ... onPollForActiveDings.next() } // kick off polling
KickOffDings(opts) ==
    IF opts.cameraDingsPollingSeconds # 0 THEN onPollForActiveDings(opts, -1) ELSE -1

\* mutant of NextBeforeReturn: the callback returns for a null or empty
\* result before it reaches onPollForActiveDings.next()
NextAfterReturn(activeDings) == activeDings # <<>>

\* the callback calls onPollForActiveDings.next() first, for every result,
\* and only then returns if (!activeDings || !activeDings.length)
NextBeforeReturn(activeDings) == TRUE

\* an ActiveDing, as far as the dispatch reads it
ActiveDing(doorbot_id) == [doorbot_id |-> doorbot_id]

\* the lists fetchActiveDings can resolve to
ActiveDingLists == SeqsUpTo({ActiveDing(id) : id \in Ids}, MaxRecords)

\* camerasById[activeDing.doorbot_id]; 0 stands for undefined
LookupDing(byId, activeDing) ==
    IF activeDing.doorbot_id \in DOMAIN byId THEN byId[activeDing.doorbot_id] ELSE 0

\* activeDings.forEach(activeDing => { ... camera.processActiveDing(activeDing) }):
\* the calls made, in order, as <<position of the camera, activeDing>>
RECURSIVE processActiveDings(_, _)
processActiveDings(byId, activeDings) ==
    IF activeDings = <<>>
    THEN <<>>
    ELSE LET k == LookupDing(byId, Head(activeDings))
             rest == processActiveDings(byId, Tail(activeDings))
         IN  IF k # 0 THEN <<<<k, Head(activeDings)>>>> \o rest ELSE rest

Bump(since, cap) == IF since = -1 \/ since = cap THEN since ELSE since + 1

CountDown(timer) == IF timer > 0 THEN timer - 1 ELSE timer

---------------------------------------------------------------------------
(* Initial states *)

NoDevices ==
    [doorbots |-> <<>>, authorizedDoorbots |-> <<>>, stickupCams |-> <<>>,
     allCameras |-> <<>>, baseStations |-> <<>>, beamBridges |-> <<>>]

\* options.locationIds: absent (not an array), or an array of location ids
LocationIdOptions ==
    {[isArray |-> FALSE, ids |-> {}]}
        \cup {[isArray |-> TRUE, ids |-> S] : S \in {{}, {"L1"}}}

Options ==
    [locationIds : LocationIdOptions, cameraStatusPollingSeconds : StatusIntervals,
     cameraDingsPollingSeconds : DingIntervals]

PipelineOff ==
    /\ listening = FALSE
    /\ camerasById = <<>>
    /\ throttleInner = -1
    /\ throttleOuter = -1
    /\ throttleOrder = "none"
    /\ debounce = -1
    /\ fetches = <<>>

ObserversOff ==
    /\ event = "none"
    /\ sinceStart = -1
    /\ sinceInner = -1
    /\ sinceDone = -1
    /\ uptime = 0
    /\ gap = -1
    /\ manualSeen = FALSE
    /\ overlap = FALSE
    /\ delivered = <<>>

DingsOff ==
    /\ dingDebounce = -1
    /\ dingFetches = <<>>
    /\ dingEvent = "none"
    /\ dingSink = <<>>
    /\ sinceDingDone = -1

\* new RingApi(options): fetchAndBuildLocations is about to run
InitBuild ==
    /\ pc = "start"
    /\ options \in Options
    /\ restClient \in RestClientStates
    /\ rawLocations = <<>>
    /\ devices = NoDevices
    /\ cameras = <<>>
    /\ locations = <<>>
    /\ PipelineOff
    /\ ObserversOff
    /\ DingsOff

\* the snapshots the polling specification builds its cameras from: no camera,
\* one doorbot, a doorbot and a stickup cam, one id as doorbot and authorized doorbot
PollSnapshots ==
    LET c1 == [id |-> 1, location_id |-> "L1"]
        c2 == [id |-> 2, location_id |-> "L1"]
    IN  { Response(<<>>, <<>>, <<>>, <<>>, <<>>),
          Response(<<c1>>, <<>>, <<>>, <<>>, <<>>),
          Response(<<c1>>, <<c2>>, <<>>, <<>>, <<>>),
          Response(<<c1>>, <<>>, <<c1>>, <<>>, <<>>) }

\* fetchAndBuildLocations has built cameras and locations and is about to call
\* listenForCameraUpdates(cameras)
Init ==
    /\ pc = "built"
    /\ options \in {o \in Options :
                       ~o.locationIds.isArray /\ o.cameraDingsPollingSeconds = 0}
    /\ restClient = [using2fa |-> FALSE, refreshToken |-> FALSE]
    /\ rawLocations = <<"L1">>
    /\ \E r \in PollSnapshots :
          /\ devices = fetchRingDevices(r)
          /\ cameras = BuildCameras(fetchRingDevices(r))
          /\ locations = BuildLocations(options, rawLocations,
                                        BuildCameras(fetchRingDevices(r)),
                                        fetchRingDevices(r))
    /\ PipelineOff
    /\ ObserversOff
    /\ DingsOff

---------------------------------------------------------------------------
(* fetchAndBuildLocations, step by step *)

\* await this.fetchRawLocations(): the request resolves or rejects
FetchRawLocations ==
    /\ pc = "start"
    /\ \/ \E raw \in RawLocationLists :
              /\ rawLocations' = raw
              /\ pc' = "fetchedLocations"
       \/ /\ pc' = "rejected"
          /\ UNCHANGED rawLocations
    /\ UNCHANGED <<options, restClient, devices, cameras, locations, pollVars, obsVars,
                   dingVars>>

\* await this.fetchRingDevices(): the request rejects, or it resolves and the
\* process exits on the 2fa condition, or the lists are returned
FetchRingDevicesForBuild ==
    /\ pc = "fetchedLocations"
    /\ \/ /\ pc' = "rejected"
          /\ UNCHANGED devices
       \/ \E response \in Snapshots :
              IF ExitFor2fa(restClient)
              THEN pc' = "exited" /\ UNCHANGED devices
              ELSE pc' = "fetchedDevices" /\ devices' = fetchRingDevices(response)
    /\ UNCHANGED <<options, restClient, rawLocations, cameras, locations, pollVars,
                   obsVars, dingVars>>

\* the cameras and locations of fetchAndBuildLocations
BuildDirectory ==
    /\ pc = "fetchedDevices"
    /\ cameras' = BuildCameras(devices)
    /\ locations' = BuildLocations(options, rawLocations, BuildCameras(devices), devices)
    /\ pc' = "built"
    /\ UNCHANGED <<options, restClient, rawLocations, devices, pollVars, obsVars,
                   dingVars>>

\* this.listenForCameraUpdates(cameras); return locations
ListenForCameraUpdates ==
    /\ pc = "built"
    /\ pc' = "running"
    /\ camerasById' = camerasByIdOf(cameras)
    /\ IF NoCameras(cameras)
       THEN listening' = FALSE /\ debounce' = -1 /\ dingDebounce' = -1
       ELSE /\ listening' = TRUE
            /\ debounce' = KickOff(options)
            /\ dingDebounce' = KickOffDings(options)
    /\ UNCHANGED <<options, restClient, rawLocations, devices, cameras, locations,
                   throttleInner, throttleOuter, throttleOrder, fetches, obsVars,
                   dingFetches, dingEvent, dingSink, sinceDingDone>>

---------------------------------------------------------------------------
(* The running pipeline *)

Running == pc = "running" /\ listening

\* a step of the status pipeline: the dings pipeline is another chain of
\* observables, with its own Subject, timer and requests
DingsIdle ==
    /\ dingEvent' = "none"
    /\ dingSink' = <<>>
    /\ UNCHANGED <<dingDebounce, dingFetches, sinceDingDone>>

\* a step of the dings pipeline: nothing of the status pipeline takes part
StatusIdle ==
    /\ event' = "none"
    /\ delivered' = <<>>
    /\ overlap' = FALSE
    /\ UNCHANGED <<buildVars, listening, camerasById, throttleInner, throttleOuter,
                   throttleOrder, debounce, fetches, sinceStart, sinceInner, sinceDone,
                   uptime, gap, manualSeen>>

\* switchMap calls fetchRingDevices for a value that passed the outer throttle
StartFetch ==
    /\ fetches' = SwitchMap(fetches)
    /\ overlap' = (\E i \in DOMAIN fetches : fetches[i])
    /\ gap' = sinceStart
    /\ sinceStart' = 0

\* camera k emits onRequestUpdate: the value meets throttleTime(500) of
\* camerasRequestUpdate$, then throttleTime(500) of the merged stream
RequestUpdate(k) ==
    /\ Running
    /\ manualSeen' = TRUE
    /\ IF ThrottleOpen(throttleInner)
       THEN /\ throttleInner' = ThrottleTimer
            /\ sinceInner' = 0
            /\ IF ThrottleOpen(throttleOuter)
               THEN /\ Len(fetches) < MaxOutstanding
                    /\ throttleOuter' = ThrottleTimer
                    /\ throttleOrder' = "both"
                    /\ StartFetch
                    /\ event' = "manual_admit"
               ELSE /\ throttleOrder' = "outer"
                    /\ event' = "manual_drop_outer"
                    /\ UNCHANGED <<throttleOuter, fetches, gap, sinceStart>>
                    /\ overlap' = FALSE
       ELSE /\ event' = "manual_drop_inner"
            /\ overlap' = FALSE
            /\ UNCHANGED <<throttleInner, throttleOuter, throttleOrder, fetches, gap,
                           sinceStart, sinceInner>>
    /\ UNCHANGED <<buildVars, listening, camerasById, debounce, sinceDone, uptime>>
    /\ DingsIdle
    /\ delivered' = <<>>

\* the debounceTime timer runs out: onPollForStatusUpdate emits, and the value
\* meets throttleTime(500) of the merged stream
PollTimerFires ==
    /\ Running
    /\ debounce = 0
    /\ debounce' = -1
    /\ IF ThrottleOpen(throttleOuter)
       THEN /\ Len(fetches) < MaxOutstanding
            /\ throttleOuter' = ThrottleTimer
            /\ throttleOrder' = IF throttleInner # -1 THEN "inner" ELSE "none"
            /\ StartFetch
            /\ event' = "poll_admit"
       ELSE /\ event' = "poll_drop"
            /\ overlap' = FALSE
            /\ UNCHANGED <<throttleOuter, throttleOrder, fetches, gap, sinceStart>>
    /\ UNCHANGED <<buildVars, listening, camerasById, throttleInner, sinceInner,
                   sinceDone, uptime, manualSeen>>
    /\ DingsIdle
    /\ delivered' = <<>>

\* the timer of the inner throttle runs out.  Both throttles wait 500 ms, so the
\* timer scheduled first runs out first
InnerThrottleExpires ==
    /\ Running
    /\ throttleInner = 0
    /\ throttleOrder # "both"
    /\ ~(throttleOrder = "outer" /\ throttleOuter = 0)
    /\ throttleInner' = -1
    /\ throttleOrder' = "none"
    /\ event' = "none"
    /\ UNCHANGED <<buildVars, listening, camerasById, throttleOuter, debounce, fetches,
                   sinceStart, sinceInner, sinceDone, uptime, gap, manualSeen>>
    /\ DingsIdle
    /\ delivered' = <<>>
    /\ overlap' = FALSE

\* the timer of the outer throttle runs out
OuterThrottleExpires ==
    /\ Running
    /\ throttleOuter = 0
    /\ throttleOrder # "both"
    /\ ~(throttleOrder = "inner" /\ throttleInner = 0)
    /\ throttleOuter' = -1
    /\ throttleOrder' = "none"
    /\ event' = "none"
    /\ UNCHANGED <<buildVars, listening, camerasById, throttleInner, debounce, fetches,
                   sinceStart, sinceInner, sinceDone, uptime, gap, manualSeen>>
    /\ DingsIdle
    /\ delivered' = <<>>
    /\ overlap' = FALSE

\* the two timers one admitted manual trigger scheduled run out one after the
\* other, with nothing in between
BothThrottlesExpire ==
    /\ Running
    /\ throttleOrder = "both"
    /\ throttleInner = 0
    /\ throttleInner' = -1
    /\ throttleOuter' = -1
    /\ throttleOrder' = "none"
    /\ event' = "none"
    /\ UNCHANGED <<buildVars, listening, camerasById, debounce, fetches,
                   sinceStart, sinceInner, sinceDone, uptime, gap, manualSeen>>
    /\ DingsIdle
    /\ delivered' = <<>>
    /\ overlap' = FALSE

\* the subscriber: onUpdateReceived.next(), then the dispatch of cameraData
\* (<<>> models both null and an empty list: neither reaches a camera)
Subscriber(cameraData) ==
    /\ debounce' = onPollForStatusUpdate(options, debounce)
    /\ cameras' = Dispatch(cameras, camerasById, cameraData)
    /\ delivered' = cameraData
    /\ overlap' = FALSE
    /\ sinceDone' = 0

\* the request of the fetch switchMap is subscribed to resolves
FetchSucceeds(i) ==
    /\ Running
    /\ i \in DOMAIN fetches
    /\ fetches[i]
    /\ fetches' = RemoveAt(fetches, i)
    /\ \E response \in PolledResults :
          IF ExitFor2fa(restClient)
          THEN /\ pc' = "exited"
               /\ event' = "none"
               /\ UNCHANGED <<debounce, cameras, delivered, overlap, sinceDone>>
          ELSE /\ Subscriber(response)
               /\ event' = "done_ok"
               /\ pc' = pc
    /\ UNCHANGED <<options, restClient, rawLocations, devices, locations, listening,
                   camerasById, throttleInner, throttleOuter, throttleOrder,
                   sinceStart, sinceInner, uptime, gap, manualSeen>>
    /\ DingsIdle

\* the request of the fetch switchMap is subscribed to rejects: catch(() => null)
FetchFails(i) ==
    /\ Running
    /\ i \in DOMAIN fetches
    /\ fetches[i]
    /\ fetches' = RemoveAt(fetches, i)
    /\ Subscriber(<<>>)
    /\ event' = "done_fail"
    /\ UNCHANGED <<pc, options, restClient, rawLocations, devices, locations, listening,
                   camerasById, throttleInner, throttleOuter, throttleOrder,
                   sinceStart, sinceInner, uptime, gap, manualSeen>>
    /\ DingsIdle

\* the request of a fetch switchMap has unsubscribed from resolves or rejects:
\* nobody receives the result
SupersededFetchSettles(i) ==
    /\ Running
    /\ i \in DOMAIN fetches
    /\ ~fetches[i]
    /\ fetches' = RemoveAt(fetches, i)
    /\ event' = "none"
    /\ UNCHANGED <<buildVars, listening, camerasById, throttleInner, throttleOuter,
                   throttleOrder, debounce, sinceStart, sinceInner, sinceDone, uptime,
                   gap, manualSeen>>
    /\ DingsIdle
    /\ delivered' = <<>>
    /\ overlap' = FALSE

\* the debounceTime timer of the dings pipeline runs out: switchMap calls
\* fetchActiveDings
DingTimerFires ==
    /\ Running
    /\ dingDebounce = 0
    /\ Len(dingFetches) < MaxOutstanding
    /\ dingDebounce' = -1
    /\ dingFetches' = SwitchMap(dingFetches)
    /\ dingEvent' = "ding_start"
    /\ dingSink' = <<>>
    /\ UNCHANGED sinceDingDone
    /\ StatusIdle

\* the subscriber of the dings pipeline: onPollForActiveDings.next(), then the
\* dispatch of activeDings (<<>> models both null and an empty list)
DingSubscriber(activeDings) ==
    /\ dingDebounce' = IF NextBeforeReturn(activeDings)
                       THEN onPollForActiveDings(options, dingDebounce)
                       ELSE dingDebounce
    /\ dingSink' = processActiveDings(camerasById, activeDings)
    /\ sinceDingDone' = 0

\* the request of the fetchActiveDings call switchMap is subscribed to resolves
DingFetchSucceeds(i) ==
    /\ Running
    /\ i \in DOMAIN dingFetches
    /\ dingFetches[i]
    /\ dingFetches' = RemoveAt(dingFetches, i)
    /\ \E activeDings \in ActiveDingLists :
          /\ DingSubscriber(activeDings)
          /\ dingEvent' = IF activeDings = <<>> THEN "ding_empty" ELSE "ding_ok"
    /\ StatusIdle

\* the request rejects: catch(() => null)
DingFetchFails(i) ==
    /\ Running
    /\ i \in DOMAIN dingFetches
    /\ dingFetches[i]
    /\ dingFetches' = RemoveAt(dingFetches, i)
    /\ DingSubscriber(<<>>)
    /\ dingEvent' = "ding_fail"
    /\ StatusIdle

\* 250 ms pass; no expired timer is waiting to run
Tick ==
    /\ Running
    /\ throttleInner # 0 /\ throttleOuter # 0 /\ debounce # 0 /\ dingDebounce # 0
    /\ throttleInner' = CountDown(throttleInner)
    /\ throttleOuter' = CountDown(throttleOuter)
    /\ debounce' = CountDown(debounce)
    /\ dingDebounce' = CountDown(dingDebounce)
    /\ sinceDingDone' = Bump(sinceDingDone, DingCap)
    /\ dingEvent' = "none"
    /\ dingSink' = <<>>
    /\ UNCHANGED dingFetches
    /\ sinceStart' = Bump(sinceStart, SinceCap)
    /\ sinceInner' = Bump(sinceInner, SinceCap)
    /\ sinceDone' = Bump(sinceDone, IntervalCap)
    /\ uptime' = Bump(uptime, IntervalCap)
    /\ event' = "none"
    /\ UNCHANGED <<buildVars, listening, camerasById, throttleOrder, fetches, gap,
                   manualSeen>>
    /\ delivered' = <<>>
    /\ overlap' = FALSE

---------------------------------------------------------------------------
(* Specifications *)

\* the polling pipeline, from the call of listenForCameraUpdates on
Next ==
    \/ ListenForCameraUpdates
    \/ \E k \in DOMAIN cameras : RequestUpdate(k)
    \/ PollTimerFires
    \/ InnerThrottleExpires
    \/ OuterThrottleExpires
    \/ BothThrottlesExpire
    \/ \E i \in DOMAIN fetches : FetchSucceeds(i)
    \/ \E i \in DOMAIN fetches : FetchFails(i)
    \/ \E i \in DOMAIN fetches : SupersededFetchSettles(i)
    \/ Tick

Spec == Init /\ [][Next]_vars

\* the snapshots the specification of both pipelines builds its cameras from
EventSnapshots ==
    LET c1 == [id |-> 1, location_id |-> "L1"]
    IN  { Response(<<>>, <<>>, <<>>, <<>>, <<>>),
          Response(<<c1>>, <<>>, <<>>, <<>>, <<>>) }

\* as Init, with any cameraDingsPollingSeconds
InitEvents ==
    /\ pc = "built"
    /\ options \in {o \in Options : ~o.locationIds.isArray}
    /\ restClient = [using2fa |-> FALSE, refreshToken |-> FALSE]
    /\ rawLocations = <<"L1">>
    /\ \E r \in EventSnapshots :
          /\ devices = fetchRingDevices(r)
          /\ cameras = BuildCameras(fetchRingDevices(r))
          /\ locations = BuildLocations(options, rawLocations,
                                        BuildCameras(fetchRingDevices(r)),
                                        fetchRingDevices(r))
    /\ PipelineOff
    /\ ObserversOff
    /\ DingsOff

\* the status pipeline and the dings pipeline side by side
NextEvents ==
    \/ Next
    \/ DingTimerFires
    \/ \E i \in DOMAIN dingFetches : DingFetchSucceeds(i)
    \/ \E i \in DOMAIN dingFetches : DingFetchFails(i)

SpecEvents == InitEvents /\ [][NextEvents]_vars

\* values of cameraStatusPollingSeconds for the runs without end: absent,
\* 250 ms, and one second (twice the 500 ms of throttleTime)
LiveIntervals == {0, 1, 2 * ThrottleTicks}

\* as Init, for one doorbot and options out of optionSet
InitWith(optionSet) ==
    /\ pc = "built"
    /\ options \in optionSet
    /\ restClient = [using2fa |-> FALSE, refreshToken |-> FALSE]
    /\ rawLocations = <<"L1">>
    /\ \E r \in EventSnapshots :
          /\ r.doorbots # <<>>
          /\ devices = fetchRingDevices(r)
          /\ cameras = BuildCameras(fetchRingDevices(r))
          /\ locations = BuildLocations(options, rawLocations,
                                        BuildCameras(fetchRingDevices(r)),
                                        fetchRingDevices(r))
    /\ PipelineOff
    /\ ObserversOff
    /\ DingsOff

\* the status pipeline alone: no cameraDingsPollingSeconds
InitLive ==
    InitWith([locationIds : {o \in LocationIdOptions : ~o.isArray},
              cameraStatusPollingSeconds : LiveIntervals,
              cameraDingsPollingSeconds : {0}])

\* the dings pipeline, next to a status pipeline that has manual triggers
\* only: no cameraStatusPollingSeconds
InitLiveDings ==
    InitWith([locationIds : {o \in LocationIdOptions : ~o.isArray},
              cameraStatusPollingSeconds : {0},
              cameraDingsPollingSeconds : DingIntervals \ {0}])

\* NextEvents when onPollForStatusUpdate is EMPTY: no periodic trigger, and
\* the two throttles only let a value pass together, so that their timers
\* run out together
NextLiveDings ==
    \/ ListenForCameraUpdates
    \/ \E k \in DOMAIN cameras : RequestUpdate(k)
    \/ BothThrottlesExpire
    \/ \E i \in DOMAIN fetches : FetchSucceeds(i)
    \/ \E i \in DOMAIN fetches : FetchFails(i)
    \/ \E i \in DOMAIN fetches : SupersededFetchSettles(i)
    \/ Tick
    \/ DingTimerFires
    \/ \E i \in DOMAIN dingFetches : DingFetchSucceeds(i)
    \/ \E i \in DOMAIN dingFetches : DingFetchFails(i)

\* the event loop runs the callback of every timer that has run out, time
\* goes on, and every request resolves or rejects in the end: the oldest
\* outstanding one does, whether switchMap is still subscribed to it or not
Fairness ==
    /\ WF_vars(Tick)
    /\ WF_vars(PollTimerFires)
    /\ WF_vars(InnerThrottleExpires)
    /\ WF_vars(OuterThrottleExpires)
    /\ WF_vars(BothThrottlesExpire)
    /\ WF_vars(DingTimerFires)
    /\ WF_vars(FetchSucceeds(1) \/ FetchFails(1) \/ SupersededFetchSettles(1))
    /\ WF_vars(DingFetchSucceeds(1) \/ DingFetchFails(1))

SpecLive == InitLive /\ [][Next]_vars /\ Fairness

SpecLiveDings == InitLiveDings /\ [][NextLiveDings]_vars /\ Fairness

\* the directory build, from the constructor to the call of listenForCameraUpdates
NextBuild ==
    \/ FetchRawLocations
    \/ FetchRingDevicesForBuild
    \/ BuildDirectory
    \/ ListenForCameraUpdates

SpecBuild == InitBuild /\ [][NextBuild]_vars

---------------------------------------------------------------------------
(* Properties of the Status Update Coordinator (specification Spec) *)

StatusInterval == options.cameraStatusPollingSeconds

Subscribed == {i \in DOMAIN fetches : fetches[i]}

Admitted == event \in {"manual_admit", "poll_admit"}

\* C1, as the specification states it: no snapshot fetch is started while an
\* earlier one is outstanding, so at most one fetch is in flight at any time.
C1_NoOverlap == Len(fetches) <= 1

\* C1, amended: a fetch can be started while earlier ones are outstanding, but
\* switchMap then unsubscribes from them: at any time at most one outstanding
\* fetch can still deliver its result, and it is the one started last.
C1_OneSubscribedFetch ==
    /\ Cardinality(Subscribed) <= 1
    /\ \A i \in Subscribed : i = Len(fetches)

\* two fetches are outstanding, the newer one subscribed, the older one superseded
C1_Witness == Len(fetches) = 2 /\ fetches[2] /\ ~fetches[1]

\* C2, as the specification states it: every manual trigger lies in a 500 ms
\* window with exactly one fetch start: it starts a fetch or comes at most 500 ms
\* after one, and two fetch starts are never less than 500 ms apart.
C2_ExactlyOneFetchPerBurst ==
    /\ event \in {"manual_drop_inner", "manual_drop_outer"}
          => sinceStart \in 0 .. ThrottleTicks
    /\ gap = -1 \/ gap >= ThrottleTicks

\* C2, amended: a burst of manual triggers within 500 ms starts at most one
\* fetch (two fetch starts are at least 500 ms apart), and exactly one when the
\* status interval is 0; with periodic triggers in play a manual trigger can be
\* dropped more than 500 ms after the last fetch start, its burst getting none.
C2_AtMostOneFetchPerBurst ==
    /\ gap = -1 \/ gap >= ThrottleTicks
    /\ (StatusInterval = 0 /\ event \in {"manual_drop_inner", "manual_drop_outer"})
          => sinceStart \in 0 .. ThrottleTicks

\* a manual trigger of a burst is dropped right after two fetch starts that
\* were exactly 500 ms apart
C2_Witness ==
    /\ StatusInterval = 0
    /\ event = "manual_drop_inner"
    /\ gap = ThrottleTicks
    /\ sinceStart < ThrottleTicks

\* C3, as the specification states it: a trigger is dropped only inside the
\* 500 ms after the last trigger that initiated a cycle; the first trigger, and
\* any trigger (manual or periodic) coming later than that, initiates a cycle
\* at once.
C3_NextTriggerAfterWindowInitiates ==
    /\ event \in {"manual_drop_inner", "manual_drop_outer", "poll_drop"}
          => sinceStart \in 0 .. ThrottleTicks
    /\ Admitted => sinceStart = 0 /\ (gap = -1 \/ gap >= ThrottleTicks)

\* C3, amended: an admitted trigger initiates its cycle at once and comes at
\* least 500 ms after the previous admitted one; a periodic trigger is dropped
\* only within 500 ms of the last admitted trigger; a manual trigger is dropped
\* only within 500 ms of the last admitted trigger or within 500 ms of the last
\* manual trigger that passed the throttle of camerasRequestUpdate$ (which a
\* manual trigger passes, and restarts, even when the merged throttle drops it).
C3_ThrottleStages ==
    /\ Admitted => sinceStart = 0 /\ (gap = -1 \/ gap >= ThrottleTicks)
    /\ event \in {"poll_drop", "manual_drop_outer"} => sinceStart \in 0 .. ThrottleTicks
    /\ event = "manual_drop_inner" => sinceInner \in 0 .. ThrottleTicks
    /\ event = "manual_drop_outer" => sinceInner = 0

\* a manual trigger is dropped by the inner throttle more than 500 ms after the
\* last trigger that initiated a cycle
C3_Witness == event = "manual_drop_inner" /\ sinceStart = SinceCap

\* C4, as the specification states it: with a status interval > 0 and a camera
\* registered, a snapshot fetch has begun by the time startup is over.
C4_FetchAtStartup == (Running /\ StatusInterval > 0) => sinceStart # -1

\* C4, amended: with a status interval > 0 and a camera registered, the kick
\* at startup arms the timer with the full status interval, and the first
\* periodic trigger (no cycle having completed before) comes one full status
\* interval after startup, not at startup.
C4_FirstPeriodicAfterInterval ==
    (Running /\ StatusInterval > 0 /\ sinceDone = -1) =>
        /\ uptime = 0 => debounce = StatusInterval
        /\ event \in {"poll_admit", "poll_drop"} => uptime = StatusInterval

\* the first periodic fetch begins, three ticks after startup
C4_Witness ==
    /\ event = "poll_admit"
    /\ sinceDone = -1
    /\ ~manualSeen
    /\ StatusInterval = IntervalCap
    /\ uptime = IntervalCap

\* C5, as the specification states it: with a status interval > 0, when a
\* periodic cycle begins, the cycle before it (manual or periodic) has completed,
\* at least the status interval ago; every completion restarts the full delay.
C5_AfterPriorCycleCompleted ==
    StatusInterval > 0 =>
        /\ (event = "poll_admit" /\ gap # -1)
              => (~overlap /\ sinceDone # -1 /\ sinceDone >= StatusInterval)
        /\ event \in {"done_ok", "done_fail"} => debounce = StatusInterval

\* C5, amended: with a status interval > 0, a periodic trigger comes no sooner
\* than the status interval after the last completion of a cycle (manual or
\* periodic), and every completion restarts the timer with the full delay; a
\* cycle still in flight when the timer runs out does not hold the periodic
\* cycle back.
C5_PeriodicAfterCompletion ==
    StatusInterval > 0 =>
        /\ (event \in {"poll_admit", "poll_drop"} /\ sinceDone # -1)
              => sinceDone >= StatusInterval
        /\ event \in {"done_ok", "done_fail"} => debounce = StatusInterval

\* a periodic cycle begins one status interval after the last completion, while
\* the fetch of a manual cycle is still in flight
C5_Witness ==
    /\ event = "poll_admit"
    /\ manualSeen
    /\ overlap
    /\ sinceDone = StatusInterval

\* C6: with a status interval > 0 and no manual trigger at all, the chain of
\* one-shot delays never breaks: the timer is armed or a fetch is outstanding
\* whose completion will arm it.
C6_ChainNeverBreaks ==
    (Running /\ StatusInterval > 0 /\ ~manualSeen)
        => (debounce # -1 \/ Subscribed # {})

\* C7: with the status interval 0 or absent the timer is never armed, no
\* periodic trigger occurs, and a fetch has started only if a camera asked.
C7_NoPeriodicCycle ==
    StatusInterval = 0 =>
        /\ debounce = -1
        /\ event \notin {"poll_admit", "poll_drop"}
        /\ sinceStart # -1 => manualSeen

\* with the status interval 0, a second manual cycle has completed
C7_Witness ==
    /\ StatusInterval = 0
    /\ event \in {"done_ok", "done_fail"}
    /\ gap # -1

\* the last record of cameraData with the given id
LastWithId(cameraData, id) ==
    cameraData[CHOOSE j \in DOMAIN cameraData :
                  /\ cameraData[j].id = id
                  /\ \A m \in DOMAIN cameraData : cameraData[m].id = id => m <= j]

\* C8: when a successful fetch result is dispatched, a camera receives a record
\* iff it is the registry's camera for the record's id, and then it holds the
\* (last) record with its id; every other camera is left as it was, so a record
\* with an id outside the registry changes no camera.
C8_DispatchById ==
    [][ (event' = "done_ok" /\ pc' = "running") =>
          \A k \in DOMAIN cameras :
             cameras'[k] =
                IF /\ \E j \in DOMAIN delivered' : delivered'[j].id = cameras[k].id
                   /\ camerasById[cameras[k].id] = k
                THEN [cameras[k] EXCEPT !.data = LastWithId(delivered', cameras[k].id)]
                ELSE cameras[k] ]_vars

\* a result with a record for a registered camera and a record with an unknown
\* id has been dispatched: the registered camera holds its record
C8_Witness ==
    /\ event = "done_ok"
    /\ \E j \in DOMAIN delivered : delivered[j].id \notin DOMAIN camerasById
    /\ \E j \in DOMAIN delivered :
          /\ delivered[j].id \in DOMAIN camerasById
          /\ cameras[camerasById[delivered[j].id]].data = delivered[j]

---------------------------------------------------------------------------
(* Properties of the directory build (specification SpecBuild) *)

Built == pc \in {"built", "running"}

\* the records of a list of the snapshot that carry the given id
WithId(list, id) == {k \in DOMAIN list : list[k].id = id}

\* C9, as the specification states it: the constructed device set holds at
\* most one camera per id.
C9_OneDevicePerId ==
    Built => \A j, k \in DOMAIN cameras : cameras[j].id = cameras[k].id => j = k

\* C9, amended: the build constructs one camera per record of doorbots,
\* stickup_cams and authorized_doorbots, in that order and without removing
\* duplicates: an id has as many cameras as the three lists have records with
\* it, so an id in both doorbots and authorized_doorbots yields two cameras.
C9_OneDevicePerRecord ==
    Built =>
        /\ Len(cameras) = Len(devices.doorbots) + Len(devices.stickupCams)
                            + Len(devices.authorizedDoorbots)
        /\ \A k \in DOMAIN cameras : cameras[k].data = devices.allCameras[k]
        /\ \A id \in Ids :
              Cardinality(WithId(cameras, id)) =
                  Cardinality(WithId(devices.doorbots, id))
                    + Cardinality(WithId(devices.stickupCams, id))
                    + Cardinality(WithId(devices.authorizedDoorbots, id))

\* one id is in doorbots and in authorized_doorbots, and two cameras have it
C9_Witness ==
    /\ Built
    /\ \E id \in Ids :
          /\ WithId(devices.doorbots, id) # {}
          /\ WithId(devices.authorizedDoorbots, id) # {}
          /\ Cardinality(WithId(cameras, id)) = 2

\* the build got past the check in fetchRingDevices
PastExitCheck == pc \in {"fetchedDevices", "built", "running"}

\* C10, as the specification states it: the build ends the process when the
\* client uses 2fa and no refresh token is available, and only then.
C10_ExitWithoutRefreshToken ==
    /\ pc = "exited" => (restClient.using2fa /\ ~restClient.refreshToken)
    /\ PastExitCheck => ~(restClient.using2fa /\ ~restClient.refreshToken)

\* C10, amended: once the snapshot request has resolved, the build ends the
\* process iff the client uses 2fa and a refresh token is set on the client;
\* no camera or location has been constructed then.  2fa without a refresh
\* token does not end the process.
C10_ExitWithRefreshToken ==
    /\ pc = "exited" =>
          /\ restClient.using2fa /\ restClient.refreshToken
          /\ cameras = <<>> /\ locations = <<>> /\ ~listening
    /\ PastExitCheck => ~(restClient.using2fa /\ restClient.refreshToken)

\* the process has been ended by the build
C10_Witness == pc = "exited" /\ rawLocations # <<>>

---------------------------------------------------------------------------
(* Failed and superseded fetches, and the registry (Spec) *)

\* C15: a snapshot fetch that fails is absorbed: the cycle ends as one that
\* returned no records.  No Device's status changes, nothing is dispatched,
\* the process keeps running, and the completion signal is emitted as for a
\* successful cycle: it restarts the delay of the periodic trigger.
C15_FailureAbsorbed ==
    [][event' = "done_fail" =>
          /\ cameras' = cameras
          /\ delivered' = <<>>
          /\ pc' = "running"
          /\ sinceDone' = 0
          /\ debounce' = IF StatusInterval # 0 THEN StatusInterval ELSE -1]_vars

\* a fetch has failed while the timer of the periodic trigger was running:
\* the timer has been restarted, and the Device has the data it had
C15_Witness ==
    /\ event = "done_fail"
    /\ manualSeen
    /\ sinceDone = 0
    /\ debounce = StatusInterval
    /\ uptime < StatusInterval

\* C17: a fetch that was outstanding when a later trigger was admitted is
\* superseded.  When it settles nothing is dispatched and no completion
\* signal is emitted; a result that is dispatched is that of the fetch
\* started last, and every fetch started before it stays superseded, so that
\* results are never applied out of the order the fetches started in.
C17_SupersededFetchDiscarded ==
    [][Len(fetches') < Len(fetches) =>
          IF event' \in {"done_ok", "done_fail"}
          THEN /\ fetches[Len(fetches)]
               /\ fetches' = SubSeq(fetches, 1, Len(fetches) - 1)
               /\ \A i \in DOMAIN fetches' : ~fetches'[i]
          ELSE /\ cameras' = cameras
               /\ delivered' = <<>>
               /\ debounce' = debounce
               /\ sinceDone' = sinceDone]_vars

\* the fetch started last has delivered records while a superseded fetch is
\* still outstanding
C17_Witness ==
    /\ event = "done_ok"
    /\ delivered # <<>>
    /\ fetches = <<FALSE>>

\* C19: every Device the Directory Builder constructed is the entry of the
\* registry for its own id, a Device that shares its id with another record
\* of the snapshot included, so that it receives the records fetched for
\* its id.
C19_EveryDeviceRegistered ==
    pc = "running" =>
        \A k \in DOMAIN cameras :
            cameras[k].id \in DOMAIN camerasById /\ camerasById[cameras[k].id] = k

---------------------------------------------------------------------------
(* Properties of the locations the Directory Builder returns (SpecBuild) *)

\* C11: the result holds one Location per raw location whose location_id is in
\* the locationIds allow-list, in raw order, and one per raw location when
\* locationIds is absent or not a list; each Location owns exactly the
\* Devices whose location_id is its own, each once.
C11_LocationsOfAllowList ==
    Built =>
        LET Allowed(id) == ~options.locationIds.isArray \/ id \in options.locationIds.ids
            keptIds == SelectSeq(rawLocations, Allowed)
        IN  /\ Len(locations) = Len(keptIds)
            /\ \A j \in DOMAIN locations :
                  /\ locations[j].location_id = keptIds[j]
                  /\ \A k \in DOMAIN cameras :
                        Includes(locations[j].cameras, k)
                            <=> cameras[k].data.location_id = keptIds[j]
                  /\ \A m, n \in DOMAIN locations[j].cameras :
                        locations[j].cameras[m] = locations[j].cameras[n] => m = n

\* the allow-list keeps one of two raw locations; the kept Location owns a
\* Device, and a Device of the other location is owned by no Location
C11_Witness ==
    /\ pc = "built"
    /\ options.locationIds.isArray
    /\ rawLocations = <<"L2", "L1">>
    /\ Len(locations) = 1
    /\ locations[1].cameras # <<>>
    /\ \E k \in DOMAIN cameras : cameras[k].data.location_id = "L2"

\* C14: a kept location whose id is the location_id of a base station or of a
\* bridge is built with hub presence true, and every other kept location
\* with hub presence false.
C14_HubPresence ==
    Built =>
        \A j \in DOMAIN locations :
            locations[j].hasHubs
                <=> \/ \E i \in DOMAIN devices.baseStations :
                          devices.baseStations[i].location_id = locations[j].location_id
                    \/ \E i \in DOMAIN devices.beamBridges :
                          devices.beamBridges[i].location_id = locations[j].location_id

\* two Locations are built: one has a bridge and no base station, the other
\* has neither
C14_Witness ==
    /\ pc = "built"
    /\ Len(locations) = 2
    /\ devices.baseStations = <<>>
    /\ devices.beamBridges # <<>>
    /\ locations[1].hasHubs
    /\ ~locations[2].hasHubs

---------------------------------------------------------------------------
(* Properties of the two coordinators side by side (SpecEvents) *)

DingInterval == options.cameraDingsPollingSeconds

DingSubscribed == {i \in DOMAIN dingFetches : dingFetches[i]}

\* C12: when no Device is registered the coordinators do nothing, whatever
\* the status and event intervals: no snapshot fetch and no recent-activity
\* fetch is ever issued, and no timer is armed.
C12_NoDevicesNoWork ==
    (Built /\ cameras = <<>>) =>
        /\ fetches = <<>> /\ sinceStart = -1 /\ sinceDone = -1 /\ event = "none"
        /\ dingFetches = <<>> /\ sinceDingDone = -1 /\ dingEvent = "none"
        /\ debounce = -1 /\ dingDebounce = -1
        /\ throttleInner = -1 /\ throttleOuter = -1

\* listenForCameraUpdates has returned for an empty device list with both
\* intervals set
C12_Witness ==
    /\ pc = "running"
    /\ cameras = <<>>
    /\ StatusInterval # 0
    /\ DingInterval # 0

\* C13: with an event interval above zero and a registered Device, the
\* Event Poll Coordinator re-arms after every cycle: a recent-activity fetch
\* that fails or returns an empty list invokes no Device's event sink and
\* restarts the delay of one event interval like any other cycle, so that at
\* any time the timer of the next cycle is running or a fetch whose result
\* will be received is outstanding.
DingsRearmed ==
    /\ (Running /\ DingInterval # 0) => (dingDebounce # -1 \/ DingSubscribed # {})
    /\ dingEvent \in {"ding_fail", "ding_empty"} =>
          dingSink = <<>> /\ dingDebounce = DingInterval
    /\ dingEvent = "ding_ok" => dingDebounce = DingInterval

\* C13, with the cycles that follow: what DingsRearmed states holds at any
\* time, a cycle whose fetch failed or returned an empty list is followed by
\* the start of a next cycle, and cycles keep starting for ever, as long as
\* every fetch resolves or rejects in the end.
C13_RearmsAfterEveryCycle ==
    /\ []DingsRearmed
    /\ (dingEvent \in {"ding_fail", "ding_empty"}) ~> (dingEvent = "ding_start")
    /\ (Running /\ DingInterval # 0) ~> (dingEvent = "ding_start")

\* the fetch of a cycle has failed: no event sink was invoked and the delay
\* of the next cycle has started
C13_Witness ==
    /\ dingEvent = "ding_fail"
    /\ dingSink = <<>>
    /\ dingDebounce = DingInterval
    /\ DingInterval # 0

\* the Event Poll Coordinator of C16: a recent-activity fetch is started
\* only when no earlier one is outstanding, not before one event interval
\* after startup, and not before one event interval after the end of the
\* previous cycle
DingCyclesChained ==
    /\ Len(dingFetches) <= 1
    /\ dingEvent = "ding_start" =>
          /\ Len(dingFetches) = 1
          /\ uptime >= DingInterval
          /\ sinceDingDone = -1 \/ sinceDingDone >= DingInterval

\* the step of C16: a trigger, an admission or a completion of the Status
\* Update Coordinator leaves the timer and the fetches of the Event Poll
\* Coordinator as they are
StatusLeavesDingsAlone ==
    event' # "none" => UNCHANGED <<dingDebounce, dingFetches>>

\* C16: the cycles of the Event Poll Coordinator never overlap and are
\* spaced by the chained delay (a fetch starts only when none is
\* outstanding, and each cycle after the first at least one event interval
\* after the end of the previous one), and no trigger or cycle of the Status
\* Update Coordinator starts, delays or cancels an event cycle.
C16_EventCyclesChained == []DingCyclesChained /\ [][StatusLeavesDingsAlone]_vars

\* an event cycle starts one event interval after the previous one ended,
\* while a snapshot fetch of the Status Update Coordinator is outstanding
C16_Witness ==
    /\ dingEvent = "ding_start"
    /\ sinceDingDone = DingInterval
    /\ DingInterval # 0
    /\ fetches # <<>>

---------------------------------------------------------------------------
(* Properties of runs without end (SpecLive, SpecLiveDings) *)

ManualTrigger == event \in {"manual_admit", "manual_drop_inner", "manual_drop_outer"}

Completed == event \in {"done_ok", "done_fail"}

\* C18: provided every snapshot fetch resolves or rejects in the end and
\* only finitely many manual triggers arrive, every admitted trigger is
\* followed by a completion signal, its own or that of a trigger admitted
\* later; and with a status interval of one second or more periodic triggers
\* keep being admitted, so that periodic polling never stalls for good.
C18_AdmittedTriggerCompletes ==
    (<>[]~ManualTrigger) =>
        /\ Admitted ~> Completed
        /\ (Running /\ StatusInterval >= 2 * ThrottleTicks) ~> (event = "poll_admit")

\* a manual trigger is admitted while the fetch of an earlier admitted
\* trigger is outstanding, with a status interval of one second
C18_Witness ==
    /\ event = "manual_admit"
    /\ overlap
    /\ StatusInterval = 2 * ThrottleTicks

=========================================================================
